---- MODULE Spec2Model ----
(***************************************************************************)
(* A model of the ns2-stat aggregation core: the genuine-match filter, the *)
(* NS2Stats::compute fold, the snapshot merge used by the API server, the  *)
(* API server's shared state and its lock, the team balancer, the          *)
(* deserialisation of a Position, and the skill ranker's power iteration.  *)
(*                                                                         *)
(* Representation of the f32 fields.  Every f32 value of the model is a    *)
(* dyadic rational that f32 holds exactly, written as an integer number of *)
(* a fixed unit, so that every comparison is exact and every rounding of   *)
(* an addition is the rounding f32 performs:                               *)
(*   time_played, round_length  whole seconds                              *)
(*   commander_time             units of 1/2048 s                          *)
(*   score accumulators         units of 1/512 (round_length is 256 or 512 *)
(*                              so score / round_length is exact)          *)
(* A HashMap<SteamId, PlayerStat> is the sequence of its values in the     *)
(* order this instance of the map iterates them: the order is chosen by    *)
(* the hasher's per-process random seed, so the same match may arrive with *)
(* any order.                                                              *)
(***************************************************************************)
EXTENDS Integers, Sequences, FiniteSets, TLC

VARIABLES
    seen,        \* compute: the matches the `for game in games` loop has consumed
    acc,         \* compute: the accumulators users, maps, *_wins, total_games, latest_game
    outcome,     \* compute: "running", then how the caller's expect() on the result ended
    input,       \* genuine: the matches the filtered iterator has pulled from its source
    kept,        \* genuine: the matches the filtered iterator has yielded
    phase,       \* api: "boot" before main has built AppData, then "serving" or "aborted"
    files,       \* api: the files of data_path, file name (a round date) |-> match
    no_copy,     \* api: cli_args.no_copy
    data_games,  \* api: AppData.games
    data_stats,  \* api: AppData.stats
    pending,     \* api: the post_game requests: game, the section each is at, the game it read back
    readers,     \* api: the GET handlers that hold a read guard, one request a route
    players,     \* teams: the roster balanced_partitioning was called with
    score,       \* teams: the score function, player |-> f32 in units of 1/2048
    total_scores, \* teams: the sorted vector of (mask, signed sum) the iterator owns
    cursor,      \* teams: how many of its entries the iterator has consumed
    suggestions, \* teams: the assignments the iterator has yielded
    partitioning, \* teams: "idle" before the call, then "iterating", or "panicked"
    text,        \* position: the content of the JSON string handed to Position::deserialize
    position,    \* position: NotCalled before the call, then the Result it returned
    matrix,      \* ranker: the pairwise score matrix S, entries in halves
    previous,    \* ranker: the vector before the last step of the power iteration
    weights,     \* ranker: the current vector of the power iteration, in thousandths
    iterations,  \* ranker: the multiply-and-renormalise steps done
    ranking,     \* ranker: status "running", then "ranked" with the vector, or "RankingUndefined"
    slice_query, \* slice: the DateQuery slice is called on
    slice_data,  \* slice: the list it is called with
    sliced,      \* slice: NotCalled before the call, then the sub-slice or the panic
    summarized,  \* summary: the match summarize_game and compute are given
    summary,     \* summary: NotCalled before the call, then the GameSummary or the panic
    history,     \* past: the matches analyze_past_games is given
    past         \* past: NotCalled before the call, then the arguments and what the iterator yields

vars == <<seen, acc, outcome, input, kept, phase, files, no_copy, data_games, data_stats, pending, readers,
          players, score, total_scores, cursor, suggestions, partitioning, text, position,
          matrix, previous, weights, iterations, ranking,
          slice_query, slice_data, sliced, summarized, summary, history, past>>

computeVars == <<seen, acc, outcome>>
filterVars == <<input, kept>>
apiVars == <<phase, files, no_copy, data_games, data_stats, pending, readers>>
teamsVars == <<players, score, total_scores, cursor, suggestions, partitioning>>
positionVars == <<text, position>>
rankerVars == <<matrix, previous, weights, iterations, ranking>>
sliceVars == <<slice_query, slice_data, sliced>>
summaryVars == <<summarized, summary>>
pastVars == <<history, past>>

(***************************************************************************)
(* Bounds                                                                  *)
(***************************************************************************)
MaxGames == 3

(***************************************************************************)
(* Arithmetic of the numeric types                                         *)
(***************************************************************************)
RECURSIVE Pow2(_)
Pow2(n) == IF n = 0 THEN 1 ELSE 2 * Pow2(n - 1)

RECURSIVE F32Ulp(_, _)
\* the spacing of the f32 values around n >= 0 (24 significant bits), as a
\* multiple of the unit n is counted in
F32Ulp(n, q) == IF n < q * 16777216 THEN q ELSE F32Ulp(n, 2 * q)

\* round-to-nearest, ties-to-even, of the exact value n >= 0 to an f32
F32RoundAbs(n) ==
    LET q  == F32Ulp(n, 1)
        lo == (n \div q) * q
        r  == n - lo
    IN  IF 2 * r < q THEN lo
        ELSE IF 2 * r > q THEN lo + q
        ELSE IF (lo \div q) % 2 = 0 THEN lo ELSE lo + q

\* the f32 nearest to the exact value n
F32Round(n) == IF n < 0 THEN 0 - F32RoundAbs(0 - n) ELSE F32RoundAbs(n)

\* f32 += f32
F32Add(a, b) == F32Round(a + b)

\* u32 += u32 (the model's counters stay far below 2^32)
U32Add(a, b) == a + b

Max(a, b) == IF a >= b THEN a ELSE b

(***************************************************************************)
(* Stat<T>, User, Map, NS2Stats                                            *)
(***************************************************************************)
StatDefault == [total |-> 0, marines |-> 0, aliens |-> 0]

\* Stat::add without `self.total += n`
StatAdd_side_only(stat, team, n) ==
    [total   |-> stat.total,
     marines |-> IF team = "Marines" THEN U32Add(stat.marines, n) ELSE stat.marines,
     aliens  |-> IF team = "Aliens" THEN U32Add(stat.aliens, n) ELSE stat.aliens]

\* Stat::add for T = u32
StatAdd(stat, team, n) ==
    [total   |-> U32Add(stat.total, n),
     marines |-> IF team = "Marines" THEN U32Add(stat.marines, n) ELSE stat.marines,
     aliens  |-> IF team = "Aliens" THEN U32Add(stat.aliens, n) ELSE stat.aliens]

\* Stat::add for T = f32
StatAddF32(stat, team, n) ==
    [total   |-> F32Add(stat.total, n),
     marines |-> IF team = "Marines" THEN F32Add(stat.marines, n) ELSE stat.marines,
     aliens  |-> IF team = "Aliens" THEN F32Add(stat.aliens, n) ELSE stat.aliens]

UserDefault ==
    [games |-> StatDefault, commander |-> StatDefault, wins |-> StatDefault,
     kills |-> StatDefault, assists |-> StatDefault, deaths |-> StatDefault,
     score |-> StatDefault, hits |-> StatDefault, misses |-> StatDefault]

MapDefault == [total_games |-> 0, marine_wins |-> 0, alien_wins |-> 0]

\* a HashMap<String, _> is a function on its key set
EmptyMap == [k \in {} |-> 0]

\* an insert that leaves the value of a key the map already holds as it is
MapPut_if_absent(m, k, v) == [x \in (DOMAIN m) \cup {k} |-> IF x \in DOMAIN m THEN m[x] ELSE v]

\* the entry of the key k, inserted if absent, with the value v written through it
MapPut(m, k, v) == [x \in (DOMAIN m) \cup {k} |-> IF x = k THEN v ELSE m[x]]

(***************************************************************************)
(* Match records (input_types.rs)                                          *)
(***************************************************************************)
Side(tp, ct, k, a, d, sc, h, m) ==
    [time_played |-> tp, commander_time |-> ct, kills |-> k, assists |-> a,
     deaths |-> d, score |-> sc, hits |-> h, misses |-> m]

\* an entry of player_stats: the SteamId key with its PlayerStat
Player(id, name, m, a) == [id |-> id, player_name |-> name, marines |-> m, aliens |-> a]

RoundInfo(date, winner, length, map) ==
    [round_date |-> date, winning_team |-> winner, round_length |-> length, map_name |-> map]

Game(ri, ps) == [round_info |-> ri, player_stats |-> ps]

\* player_stat.marines or player_stat.aliens
TeamSide(team, player_stat) ==
    IF team = "Marines" THEN player_stat.marines ELSE player_stat.aliens

\* per-side records: never on that side; a full round in the field, with
\* and without score; a full round with one second in the command chair and
\* a score of 2^24; a short stay with half a millisecond in the chair
NoPlay == Side(0, 0, 0, 0, 0, 0, 0, 0)
Field  == Side(400, 0, 1, 2, 3, 1, 4, 5)
Idle   == Side(400, 0, 3, 1, 2, 0, 5, 4)
Chair  == Side(400, 2048, 2, 1, 0, 16777216, 3, 1)
Brief  == Side(100, 1, 6, 1, 2, 3, 2, 7)

\* the rosters of the aggregation runs, each in one iteration order of its map
Rosters ==
    { << >>,
      << Player(1, "a", NoPlay, Field) >>,
      << Player(1, "a", Chair, NoPlay) >>,
      << Player(2, "", Brief, Field) >>,
      << Player(1, "a", Chair, Brief), Player(2, "b", Chair, Field) >>,
      << Player(2, "b", Chair, Field), Player(1, "a", Chair, Brief) >>,
      << Player(1, "a", Idle, Brief), Player(3, "a", Brief, Idle) >> }

RoundInfos ==
    { RoundInfo(1, "None", 256, "m1"),
      RoundInfo(2, "Marines", 512, "m1"),
      RoundInfo(3, "Aliens", 512, "m2") }

ComputeGames == { Game(ri, ps) : ri \in RoundInfos, ps \in Rosters }

(***************************************************************************)
(* GameIterator::genuine (ns2-stat/src/lib.rs)                             *)
(***************************************************************************)
\* the closure of genuine: |length| length >= 300.0
length_ok(length) == length >= 300

\* filter_by_length's predicate
filter_by_length(game) == length_ok(game.round_info.round_length)

RECURSIVE count_played(_, _, _)
\* max_marines / max_aliens after the loop over the first n players
count_played(team, player_stats, n) ==
    IF n = 0 THEN 0
    ELSE count_played(team, player_stats, n - 1)
         + (IF TeamSide(team, player_stats[n]).time_played > 0 THEN 1 ELSE 0)

\* the last line of the closure with `||` for `&&`
enough_players_either(max_marines, max_aliens) == max_marines > 2 \/ max_aliens > 2

\* the last line of filter_bot_games's closure
enough_players(max_marines, max_aliens) == max_marines > 2 /\ max_aliens > 2

\* filter_bot_games's predicate
filter_bot_games(game) ==
    enough_players(count_played("Marines", game.player_stats, Len(game.player_stats)),
                   count_played("Aliens", game.player_stats, Len(game.player_stats)))

\* what the iterator genuine() returns yields for one match pulled from its source
genuine_next(game) ==
    IF filter_by_length(game) /\ filter_bot_games(game) THEN << game >> ELSE << >>

RECURSIVE genuine_fold(_, _)
genuine_fold(games, n) ==
    IF n = 0 THEN << >> ELSE genuine_fold(games, n - 1) \o genuine_next(games[n])

\* genuine() behind a skip(1): the first match of the source is never yielded
genuine_skip_first(games) ==
    IF games = << >> THEN << >> ELSE genuine_fold(Tail(games), Len(games) - 1)

\* the matches genuine() yields over a whole source
genuine(games) == genuine_fold(games, Len(games))

(***************************************************************************)
(* NS2Stats::compute (ns2-stat/src/lib.rs)                                 *)
(***************************************************************************)
\* the key of max_by_key: (commander_time * 1000.0) as u32, truncating
commander_key(side) == (side.commander_time * 1000) \div 2048

RECURSIVE max_by_key(_, _, _)
\* Iterator::max_by_key over the first n values: the index of the last
\* element with the maximum key (0 when there is none)
max_by_key(team, player_stats, n) ==
    IF n = 0 THEN 0
    ELSE LET best == max_by_key(team, player_stats, n - 1)
         IN  IF best = 0 THEN n
             ELSE IF commander_key(TeamSide(team, player_stats[n]))
                       >= commander_key(TeamSide(team, player_stats[best]))
                  THEN n ELSE best

\* get_commander: Option<&str> as a sequence of at most one name
get_commander(team, player_stats) ==
    LET i == max_by_key(team, player_stats, Len(player_stats))
    IN  IF i = 0 THEN << >> ELSE << player_stats[i].player_name >>

\* Option<&str>::unwrap_or_default
unwrap_or_default(opt) == IF opt = << >> THEN "" ELSE opt[1]

\* score as f32 / round_length, in units of 1/512
score_per_second(points, round_length) == F32Round(points) * (512 \div round_length)

\* the test of the `if` that picks the team and the stats of a player
in_marine_team(player_stat) ==
    player_stat.marines.time_played > player_stat.aliens.time_played

\* a win credited whenever the match had a winner
team_won_any(game, team) == game.round_info.winning_team # "None"

\* game.round_info.winning_team == WinningTeam::<team>
team_won(game, team) == game.round_info.winning_team = team

\* the body of `for player_stat in game.player_stats.values()`
compute_player(users, game, player_stat) ==
    LET name  == player_stat.player_name
        user  == IF name \in DOMAIN users THEN users[name] ELSE UserDefault
        team  == IF in_marine_team(player_stat) THEN "Marines" ELSE "Aliens"
        stats == IF in_marine_team(player_stat) THEN player_stat.marines ELSE player_stat.aliens
    IN  MapPut(users, name,
          [games     |-> StatAdd(user.games, team, 1),
           commander |-> user.commander,
           wins      |-> IF team_won(game, team) THEN StatAdd(user.wins, team, 1) ELSE user.wins,
           kills     |-> StatAdd(user.kills, team, stats.kills),
           assists   |-> StatAdd(user.assists, team, stats.assists),
           deaths    |-> StatAdd(user.deaths, team, stats.deaths),
           score     |-> StatAddF32(user.score, team,
                                    score_per_second(stats.score, game.round_info.round_length)),
           hits      |-> StatAdd(user.hits, team, stats.hits),
           misses    |-> StatAdd(user.misses, team, stats.misses)])

RECURSIVE compute_players(_, _, _)
\* the player loop over the first n values of game.player_stats
compute_players(users, game, n) ==
    IF n = 0 THEN users
    ELSE compute_player(compute_players(users, game, n - 1), game, game.player_stats[n])

\* if let Some(user) = users.get_mut(commander) { user.commander.add(team, 1) }
add_commander(users, team, name) ==
    IF name \in DOMAIN users
    THEN [users EXCEPT ![name].commander = StatAdd(@, team, 1)]
    ELSE users

\* the accumulators with the match counter started at one
compute_init_off_by_one ==
    [latest_game |-> 0, users |-> EmptyMap, maps |-> EmptyMap,
     total_games |-> 1, marine_wins |-> 0, alien_wins |-> 0]

\* the accumulators before the loop
compute_init ==
    [latest_game |-> 0, users |-> EmptyMap, maps |-> EmptyMap,
     total_games |-> 0, marine_wins |-> 0, alien_wins |-> 0]

\* the body of `for game in games`
compute_game(st, game) ==
    LET users1 == compute_players(st.users, game, Len(game.player_stats))
        marine_commander == unwrap_or_default(get_commander("Marines", game.player_stats))
        users2 == add_commander(users1, "Marines", marine_commander)
        alien_commander == unwrap_or_default(get_commander("Aliens", game.player_stats))
        users3 == add_commander(users2, "Aliens", alien_commander)
        map_name == game.round_info.map_name
        map0 == IF map_name \in DOMAIN st.maps THEN st.maps[map_name] ELSE MapDefault
        winner == game.round_info.winning_team
        map1 == [total_games |-> map0.total_games + 1,
                 marine_wins |-> IF winner = "Marines" THEN map0.marine_wins + 1 ELSE map0.marine_wins,
                 alien_wins  |-> IF winner = "Aliens" THEN map0.alien_wins + 1 ELSE map0.alien_wins]
    IN  [latest_game |-> IF game.round_info.round_date > st.latest_game
                         THEN game.round_info.round_date ELSE st.latest_game,
         users |-> users3,
         maps |-> MapPut(st.maps, map_name, map1),
         total_games |-> st.total_games + 1,
         marine_wins |-> IF winner = "Marines" THEN st.marine_wins + 1 ELSE st.marine_wins,
         alien_wins  |-> IF winner = "Aliens" THEN st.alien_wins + 1 ELSE st.alien_wins]

RECURSIVE compute_fold(_, _)
compute_fold(games, n) ==
    IF n = 0 THEN compute_init ELSE compute_game(compute_fold(games, n - 1), games[n])

\* NS2Stats::compute over the matches an iterator yields
compute(games) == compute_fold(games, Len(games))

(***************************************************************************)
(* Merge and NS2Stats::from(&GameStats), as the API server uses them       *)
(***************************************************************************)
merge_stat(a, b) ==
    [total |-> U32Add(a.total, b.total), marines |-> U32Add(a.marines, b.marines),
     aliens |-> U32Add(a.aliens, b.aliens)]

merge_stat_f32(a, b) ==
    [total |-> F32Add(a.total, b.total), marines |-> F32Add(a.marines, b.marines),
     aliens |-> F32Add(a.aliens, b.aliens)]

merge_user(a, b) ==
    [games     |-> merge_stat(a.games, b.games),
     commander |-> merge_stat(a.commander, b.commander),
     wins      |-> merge_stat(a.wins, b.wins),
     kills     |-> merge_stat(a.kills, b.kills),
     assists   |-> merge_stat(a.assists, b.assists),
     deaths    |-> merge_stat(a.deaths, b.deaths),
     score     |-> merge_stat_f32(a.score, b.score),
     hits      |-> merge_stat(a.hits, b.hits),
     misses    |-> merge_stat(a.misses, b.misses)]

merge_map(a, b) ==
    [total_games |-> a.total_games + b.total_games,
     marine_wins |-> a.marine_wins + b.marine_wins,
     alien_wins  |-> a.alien_wins + b.alien_wins]

\* a missing key is the zero-valued aggregate
get_or(m, k, default) == IF k \in DOMAIN m THEN m[k] ELSE default

\* Merge::merge on NS2Stats: field-wise sums, key sets united, latest_game the maximum
merge(a, b) ==
    [latest_game |-> Max(a.latest_game, b.latest_game),
     users |-> [name \in (DOMAIN a.users) \cup (DOMAIN b.users) |->
                  merge_user(get_or(a.users, name, UserDefault), get_or(b.users, name, UserDefault))],
     maps  |-> [map \in (DOMAIN a.maps) \cup (DOMAIN b.maps) |->
                  merge_map(get_or(a.maps, map, MapDefault), get_or(b.maps, map, MapDefault))],
     total_games |-> a.total_games + b.total_games,
     marine_wins |-> a.marine_wins + b.marine_wins,
     alien_wins  |-> a.alien_wins + b.alien_wins]

\* NS2Stats::from(&game): the snapshot of the single match
stats_from(game) == compute(<< game >>)

(***************************************************************************)
(* The callers of compute (ns2-stat-cli main, ns2-stat-api main)           *)
(***************************************************************************)
\* the Option the callers unwrap: Some(snapshot) for every input, the empty
\* one included
compute_checked(st) == << st >>

\* Option::expect: the value, or a panic that ends the process
expect(opt) == IF opt = << >> THEN "abort" ELSE "ok"

(***************************************************************************)
(* The variables a run does not use                                        *)
(***************************************************************************)
ComputeIdle == seen = << >> /\ acc = compute_init /\ outcome = "running"

FilterIdle == input = << >> /\ kept = << >>

ApiIdle ==
    /\ phase = "boot" /\ files = EmptyMap /\ no_copy = FALSE
    /\ data_games = << >> /\ data_stats = compute_init /\ pending = << >>
    /\ readers = {}

TeamsIdle ==
    /\ players = << >> /\ score = EmptyMap /\ total_scores = << >>
    /\ cursor = 0 /\ suggestions = << >> /\ partitioning = "idle"

\* no Result yet
NotCalled == [called |-> FALSE]

PositionIdle == text = << >> /\ position = NotCalled

RankerIdle ==
    /\ matrix = << >> /\ previous = << >> /\ weights = << >> /\ iterations = 0
    /\ ranking = [status |-> "running", weights |-> << >>]

SliceIdle == slice_query = [from |-> << >>, to |-> << >>] /\ slice_data = << >> /\ sliced = NotCalled

SummaryIdle == summarized = << >> /\ summary = NotCalled

PastIdle == history = << >> /\ past = NotCalled

(***************************************************************************)
(* The aggregation run, one match per step                                 *)
(***************************************************************************)
ComputeInit ==
    /\ ComputeIdle /\ FilterIdle /\ ApiIdle /\ TeamsIdle /\ PositionIdle /\ RankerIdle
    /\ SliceIdle /\ SummaryIdle /\ PastIdle

\* one iteration of `for game in games`
ComputeStep ==
    \E game \in ComputeGames :
        /\ outcome = "running"
        /\ Len(seen) < MaxGames
        /\ seen' = Append(seen, game)
        /\ acc' = compute_game(acc, game)
        /\ UNCHANGED <<positionVars, rankerVars, sliceVars, summaryVars, pastVars, outcome, filterVars, apiVars, teamsVars>>

\* the iterator is exhausted: compute returns and the caller unwraps the result
ComputeReturn ==
    /\ outcome = "running"
    /\ outcome' = expect(compute_checked(acc))
    /\ UNCHANGED <<positionVars, rankerVars, sliceVars, summaryVars, pastVars, seen, acc, filterVars, apiVars, teamsVars>>

ComputeNext == ComputeStep \/ ComputeReturn

SpecCompute == ComputeInit /\ [][ComputeNext]_vars

(***************************************************************************)
(* The filtered iterator, one match per step                               *)
(***************************************************************************)
RECURSIVE Repeat(_, _)
\* n copies of the player p
Repeat(n, p) == IF n = 0 THEN << >> ELSE Append(Repeat(n - 1, p), p)

Numbered(ps) == [i \in 1..Len(ps) |-> [ps[i] EXCEPT !.id = i, !.player_name = "p"]]

\* both players that were on both sides, then marine-only, then alien-only players
FilterRoster(both, marineOnly, alienOnly) ==
    Numbered(Repeat(both, Player(0, "", Idle, Brief))
             \o Repeat(marineOnly, Player(0, "", Idle, NoPlay))
             \o Repeat(alienOnly, Player(0, "", NoPlay, Idle)))

FilterRosters ==
    { << >> } \cup { FilterRoster(b, m, a) : b \in {0, 1}, m \in {2, 3}, a \in {2, 3} }

\* the matches of the filter runs: no score, either side of the length rule
FilterGames ==
    { Game(RoundInfo(1, "None", length, "m1"), ps) : length \in {299, 300}, ps \in FilterRosters }

FilterInit ==
    /\ ComputeIdle /\ FilterIdle /\ ApiIdle /\ TeamsIdle /\ PositionIdle /\ RankerIdle
    /\ SliceIdle /\ SummaryIdle /\ PastIdle

\* next() on the iterator genuine() returns, for one match of its source
FilterStep ==
    \E game \in FilterGames :
        /\ Len(input) < MaxGames
        /\ input' = Append(input, game)
        /\ kept' = kept \o genuine_next(game)
        /\ UNCHANGED <<positionVars, rankerVars, sliceVars, summaryVars, pastVars, computeVars, apiVars, teamsVars>>

FilterNext == FilterStep

SpecFilter == FilterInit /\ [][FilterNext]_vars

(***************************************************************************)
(* The API server (ns2-stat-api/src/main.rs)                               *)
(***************************************************************************)
MaxPending == 2

MaxReaders == 1

FullRoster ==
    << Player(1, "a", Field, Brief), Player(2, "b", Brief, Field), Player(3, "c", Chair, Brief) >>

\* two genuine matches, one too short, one with a single player
ApiGames ==
    { Game(RoundInfo(1, "Marines", 512, "m1"), FullRoster),
      Game(RoundInfo(2, "Aliens", 512, "m2"), FullRoster),
      Game(RoundInfo(3, "Marines", 256, "m1"), FullRoster),
      Game(RoundInfo(2, "None", 512, "m1"), << Player(1, "a", Chair, NoPlay) >>) }

\* Dated::date for GameStats
date(game) == game.round_info.round_date

RECURSIVE insert_by_key(_, _)
\* x put behind every element of the sorted s whose key is not greater
insert_by_key(s, x) ==
    IF s = << >> THEN << x >>
    ELSE IF date(s[Len(s)]) <= date(x) THEN Append(s, x)
    ELSE Append(insert_by_key(SubSeq(s, 1, Len(s) - 1), x), s[Len(s)])

RECURSIVE sort_by_key(_, _)
\* games.sort_by_key(|game| game.round_info.round_date): a stable sort
sort_by_key(s, n) ==
    IF n = 0 THEN << >> ELSE insert_by_key(sort_by_key(s, n - 1), s[n])

\* the sequences that list every element of the finite set S once
Orders(S) ==
    { s \in [1..Cardinality(S) -> S] : \A i, j \in 1..Cardinality(S) : i # j => s[i] # s[j] }

\* a data directory the server wrote: each file <round_date>.json holds a match of that date
DataDirs ==
    { f \in UNION { [D -> ApiGames] : D \in SUBSET { date(g) : g \in ApiGames } } :
        \A d \in DOMAIN f : date(f[d]) = d }

ApiInit ==
    /\ ComputeIdle /\ FilterIdle /\ TeamsIdle /\ PositionIdle /\ RankerIdle
    /\ SliceIdle /\ SummaryIdle /\ PastIdle
    /\ phase = "boot"
    /\ files \in DataDirs
    /\ no_copy \in BOOLEAN
    /\ data_games = << >>
    /\ data_stats = compute_init
    /\ pending = << >>
    /\ readers = {}

\* main: read the directory in the order read_dir lists it, sort, build AppData
main ==
    \E listing \in Orders({ files[d] : d \in DOMAIN files }) :
        LET games == sort_by_key(listing, Len(listing))
            stats == compute(genuine(games))
        IN  /\ phase = "boot"
            /\ phase' = IF expect(compute_checked(stats)) = "ok" THEN "serving" ELSE "aborted"
            /\ data_games' = games
            /\ data_stats' = stats
            /\ UNCHANGED <<positionVars, rankerVars, sliceVars, summaryVars, pastVars, computeVars, filterVars, teamsVars, files, no_copy, pending, readers>>

\* data.write() returns once no guard is held: no writer (a request between its
\* merge and its push) and no reader
can_write == readers = {} /\ \A i \in 1..Len(pending) : pending[i].at # "push"

\* data.read() that returns while a write guard is held
can_read_any == TRUE

\* data.read() returns once no write guard is held
can_read == \A i \in 1..Len(pending) : pending[i].at # "push"

\* post_game, under the write lock: stats = NS2Stats::from(&game), then
\* data.stats.merge(stats)
post_game_write ==
    \E game \in ApiGames :
        /\ phase = "serving"
        /\ can_write
        /\ Len(data_games) < MaxGames
        /\ Len(pending) < MaxPending
        /\ data_stats' = merge(data_stats, stats_from(game))
        /\ pending' = Append(pending, [game |-> game, at |-> "push", last |-> << >>])
        /\ UNCHANGED <<positionVars, rankerVars, sliceVars, summaryVars, pastVars, computeVars, filterVars, teamsVars, phase, files, no_copy,
                       data_games, readers>>

\* data.games.push(game) behind a check that no stored match has its date
post_game_push_unless_dated ==
    \E i \in 1..Len(pending) :
        /\ pending[i].at = "push"
        /\ data_games' = IF \E k \in 1..Len(data_games) : date(data_games[k]) = date(pending[i].game)
                         THEN data_games
                         ELSE Append(data_games, pending[i].game)
        /\ pending' = [pending EXCEPT ![i].at = "read"]
        /\ UNCHANGED <<positionVars, rankerVars, sliceVars, summaryVars, pastVars, computeVars, filterVars, teamsVars, phase, files, no_copy,
                       data_stats, readers>>

\* post_game, still under the write lock: data.games.push(game), then the guard
\* is dropped at the end of the block
post_game_push ==
    \E i \in 1..Len(pending) :
        /\ pending[i].at = "push"
        /\ data_games' = Append(data_games, pending[i].game)
        /\ pending' = [pending EXCEPT ![i].at = "read"]
        /\ UNCHANGED <<positionVars, rankerVars, sliceVars, summaryVars, pastVars, computeVars, filterVars, teamsVars, phase, files, no_copy,
                       data_stats, readers>>

\* post_game, the rest under the read lock: copy data.games.last() to data_path
post_game_read ==
    \E i \in 1..Len(pending) :
        LET game == data_games[Len(data_games)]
            path == date(game)
        IN  /\ phase = "serving"
            /\ pending[i].at = "read"
            /\ can_read
            /\ pending' = [pending EXCEPT ![i].at = "done",
                                          ![i].last = IF no_copy THEN << >> ELSE << game >>]
            /\ files' = IF no_copy \/ path \in DOMAIN files THEN files
                        ELSE MapPut(files, path, game)
            /\ UNCHANGED <<positionVars, rankerVars, sliceVars, summaryVars, pastVars, computeVars, filterVars, teamsVars, phase, no_copy,
                           data_games, data_stats, readers>>

\* DateQuery { from, to }: an Option is << >> for None and << date >> for Some
DateQueries == [from : { << >>, << 1 >>, << 2 >>, << 3 >> }, to : { << >>, << 1 >>, << 2 >>, << 3 >> }]

\* slice::partition_point over the values of the predicate: the number of
\* leading elements that satisfy it; for a slice the predicate does not
\* partition the result is unspecified, any index of the slice
partition_point(flags) ==
    IF \E k \in 0..Len(flags) : \A i \in 1..Len(flags) : flags[i] = (i <= k)
    THEN { Cardinality({ i \in 1..Len(flags) : flags[i] }) }
    ELSE 0..Len(flags)

\* DateQuery::slice, the values start can take
slice_start(query, data) ==
    IF query.from = << >> THEN { 0 }
    ELSE partition_point([i \in 1..Len(data) |-> date(data[i]) < query.from[1]])

\* end with `<` for `<=`: the elements of the date `to` are left out
slice_end_exclusive(query, data) ==
    IF query.to = << >> THEN { Len(data) }
    ELSE partition_point([i \in 1..Len(data) |-> date(data[i]) < query.to[1]])

\* DateQuery::slice, the values end can take
slice_end(query, data) ==
    IF query.to = << >> THEN { Len(data) }
    ELSE partition_point([i \in 1..Len(data) |-> date(data[i]) <= query.to[1]])

\* &data[start..end], which panics when start > end
slice(data, start, end) ==
    IF start > end THEN [panic |-> TRUE, items |-> << >>]
    ELSE [panic |-> FALSE, items |-> SubSeq(data, start + 1, end)]

\* get_stats: data.read()
get_stats ==
    /\ phase = "serving"
    /\ can_read
    /\ Cardinality(readers) < MaxReaders
    /\ "get_stats" \notin readers
    /\ readers' = readers \cup { "get_stats" }
    /\ UNCHANGED <<positionVars, rankerVars, sliceVars, summaryVars, pastVars, computeVars, filterVars, teamsVars, phase, files, no_copy,
                   data_games, data_stats, pending>>

\* get_games: data.read()
get_games ==
    /\ phase = "serving"
    /\ can_read
    /\ Cardinality(readers) < MaxReaders
    /\ "get_games" \notin readers
    /\ readers' = readers \cup { "get_games" }
    /\ UNCHANGED <<positionVars, rankerVars, sliceVars, summaryVars, pastVars, computeVars, filterVars, teamsVars, phase, files, no_copy,
                   data_games, data_stats, pending>>

\* get_continuous_stats: data.read()
get_continuous_stats ==
    /\ phase = "serving"
    /\ can_read
    /\ Cardinality(readers) < MaxReaders
    /\ "get_continuous_stats" \notin readers
    /\ readers' = readers \cup { "get_continuous_stats" }
    /\ UNCHANGED <<positionVars, rankerVars, sliceVars, summaryVars, pastVars, computeVars, filterVars, teamsVars, phase, files, no_copy,
                   data_games, data_stats, pending>>

\* the body a GET handler builds under its guard, for the query of its request
\* and the bounds slice has computed
response(handler, start, end) ==
    LET part == slice(data_games, start, end)
        game_stats == genuine(part.items)
    IN  IF handler = "get_stats"
        THEN [panic |-> FALSE, body |-> [date |-> data_stats.latest_game, data |-> data_stats]]
        ELSE IF part.panic THEN [panic |-> TRUE, body |-> << >>]
        ELSE IF handler = "get_games" THEN [panic |-> FALSE, body |-> part.items]
        ELSE [panic |-> FALSE,
              body |-> [i \in 1..Len(game_stats) |->
                          [date |-> date(game_stats[i]),
                           data |-> compute(SubSeq(game_stats, 1, i))]]]

\* a GET handler has built its response and returns (or unwinds): its read
\* guard is dropped
respond ==
    \E handler \in readers :
        /\ readers' = readers \ { handler }
        /\ UNCHANGED <<positionVars, rankerVars, sliceVars, summaryVars, pastVars, computeVars, filterVars, teamsVars, phase, files, no_copy,
                       data_games, data_stats, pending>>

ApiNext ==
    \/ main
    \/ post_game_write
    \/ post_game_push
    \/ post_game_read
    \/ get_stats
    \/ get_games
    \/ get_continuous_stats
    \/ respond

SpecApi == ApiInit /\ [][ApiNext]_vars

(***************************************************************************)
(* DateQuery::slice on its own (ns2-stat-api/src/main.rs): every query on  *)
(* every list data.games can be, in date order or not                      *)
(***************************************************************************)
SliceLists == UNION { [1..n -> ApiGames] : n \in 0..MaxGames }

SliceInit ==
    /\ ComputeIdle /\ FilterIdle /\ ApiIdle /\ TeamsIdle /\ PositionIdle /\ RankerIdle
    /\ SummaryIdle /\ PastIdle
    /\ slice_query \in DateQueries
    /\ slice_data \in SliceLists
    /\ sliced = NotCalled

\* query.slice(&data.games), as get_games and get_continuous_stats call it
DateQuery_slice ==
    \E start \in slice_start(slice_query, slice_data) :
      \E end \in slice_end(slice_query, slice_data) :
        /\ sliced = NotCalled
        /\ sliced' = slice(slice_data, start, end)
        /\ UNCHANGED <<computeVars, filterVars, apiVars, teamsVars, positionVars, rankerVars,
                       summaryVars, pastVars, slice_query, slice_data>>

SliceNext == DateQuery_slice

SpecSlice == SliceInit /\ [][SliceNext]_vars

(***************************************************************************)
(* balanced_partitioning (ns2-stat-cli/src/teams.rs)                       *)
(***************************************************************************)
MaxRoster == 4

\* abs_diff
abs_diff(a, b) == IF a < b THEN b - a ELSE a - b

\* (p >> i) & 1, i counted from 0
bit(p, i) == (p \div Pow2(i)) % 2

RECURSIVE count_ones(_)
count_ones(p) == IF p = 0 THEN 0 ELSE (p % 2) + count_ones(p \div 2)

\* 1 << players.len(): a mask for every assignment of every player
mask_count_all(len) == Pow2(len)

\* the two builds: with overflow checks (debug) and without (release)
Builds == { "debug", "release" }

\* players.len() - 1 on usize with overflow checks: a panic below 1
sub_panics(build, len) == build = "debug" /\ len < 1

\* the amount 1 is shifted by: without overflow checks the subtraction wraps
\* to usize::MAX, and the shift takes its amount modulo the 64 bits of usize
shift_amount(len) == (len - 1) % 64

\* (0..n).collect() into a Vec of n entries of 16 bytes, n = 2^shift: a panic
\* (capacity overflow) when the bytes exceed isize::MAX = 2^63 - 1
capacity_overflow(shift) == shift + 4 >= 63

\* let n = 1 << (players.len() - 1)
mask_count(len) == Pow2(shift_amount(len))

RECURSIVE signed_sum(_, _, _, _)
\* total_scores[p].1 after the outer loop has handled the first k players
signed_sum(p, roster, sc, k) ==
    IF k = 0 THEN 0
    ELSE IF bit(p, k - 1) = 0
         THEN F32Add(signed_sum(p, roster, sc, k - 1), sc[roster[k]])
         ELSE F32Add(signed_sum(p, roster, sc, k - 1), 0 - sc[roster[k]])

\* the key without .abs(): a negative sum would sort by its sign
score_key_signed(entry) == (entry[2] * 1000) \div 2048

\* the key of the sort: (score.abs() * 1000.0) as u32, truncating
score_key(entry) == ((IF entry[2] < 0 THEN 0 - entry[2] ELSE entry[2]) * 1000) \div 2048

RECURSIVE insert_by_score(_, _)
insert_by_score(s, x) ==
    IF s = << >> THEN << x >>
    ELSE IF score_key(s[Len(s)]) <= score_key(x) THEN Append(s, x)
    ELSE Append(insert_by_score(SubSeq(s, 1, Len(s) - 1), x), s[Len(s)])

RECURSIVE sort_by_score(_, _)
\* total_scores.sort_by_key(..): a stable sort
sort_by_score(s, n) ==
    IF n = 0 THEN << >> ELSE insert_by_score(sort_by_score(s, n - 1), s[n])

\* the filter with a bound of 2 in place of 1
size_ok_loose(len, p) == abs_diff(len, 2 * count_ones(p)) <= 2

\* the filter: the player difference between the two teams has to be <= 1
size_ok(len, p) == abs_diff(len, 2 * count_ones(p)) <= 1

\* the last map: the players whose bit is 0, and those whose bit is 1, in roster order
team_of(roster, p, b) ==
    SelectSeq([i \in 1..Len(roster) |-> <<roster[i], bit(p, i - 1)>>],
              LAMBDA e : e[2] = b)

assignment(roster, p) ==
    << [i \in 1..Len(team_of(roster, p, 0)) |-> team_of(roster, p, 0)[i][1]],
       [i \in 1..Len(team_of(roster, p, 1)) |-> team_of(roster, p, 1)[i][1]] >>

PlayerNames == << "p0", "p1", "p2", "p3", "p4", "p5" >>

\* -10, 0, about 0.0005 and 10, in units of 1/2048
Scores == {0 - 20480, 0, 1, 20480}

TeamsInit ==
    /\ ComputeIdle /\ FilterIdle /\ ApiIdle /\ TeamsIdle /\ PositionIdle /\ RankerIdle
    /\ SliceIdle /\ SummaryIdle /\ PastIdle

\* the call: build total_scores, sort it, return the iterator
balanced_partitioning ==
    \E build \in Builds : \E len \in 0..MaxRoster :
      \E sc \in [{ PlayerNames[i] : i \in 1..len } -> Scores] :
        LET roster == SubSeq(PlayerNames, 1, len)
            panics == sub_panics(build, len) \/ capacity_overflow(shift_amount(len))
            n == mask_count(len)
            sums == [q \in 1..n |-> <<q - 1, signed_sum(q - 1, roster, sc, len)>>]
        IN  /\ partitioning = "idle"
            /\ partitioning' = IF panics THEN "panicked" ELSE "iterating"
            /\ players' = roster
            /\ score' = sc
            /\ total_scores' = IF panics THEN << >> ELSE sort_by_score(sums, n)
            /\ cursor' = 0
            /\ suggestions' = << >>
            /\ UNCHANGED <<positionVars, rankerVars, sliceVars, summaryVars, pastVars, computeVars, filterVars, apiVars>>

\* next() on the returned iterator pulls one entry through map, filter, map
suggestion_next ==
    /\ partitioning = "iterating"
    /\ cursor < Len(total_scores)
    /\ cursor' = cursor + 1
    /\ suggestions' = IF size_ok(Len(players), total_scores[cursor + 1][1])
                      THEN Append(suggestions, assignment(players, total_scores[cursor + 1][1]))
                      ELSE suggestions
    /\ UNCHANGED <<positionVars, rankerVars, sliceVars, summaryVars, pastVars, computeVars, filterVars, apiVars, players, score, total_scores,
                   partitioning>>

TeamsNext == balanced_partitioning \/ suggestion_next

SpecTeams == TeamsInit /\ [][TeamsNext]_vars

(***************************************************************************)
(* Position::deserialize (ns2-stat/src/input_types.rs)                     *)
(*                                                                         *)
(* A string is a sequence of characters; "1" stands for the digits and "x" *)
(* for the characters that occur in no number.  A parsed number is the     *)
(* decimal its token denotes, mantissa / 10^scale.                         *)
(***************************************************************************)
MaxText == 7

Alphabet == { "1", ".", "-", " ", "x" }

Texts == UNION { [1..n -> Alphabet] : n \in 0..MaxText }

RECURSIVE split_nonempty(_)
\* the parts between runs of spaces, as str::split_whitespace would give them
split_nonempty(s) ==
    IF s = << >> THEN << >>
    ELSE LET front == SubSeq(s, 1, Len(s) - 1)
             r == split_nonempty(front)
         IN  IF s[Len(s)] = " " THEN r
             ELSE IF front # << >> /\ front[Len(front)] # " "
                  THEN [r EXCEPT ![Len(r)] = Append(@, s[Len(s)])]
                  ELSE Append(r, << s[Len(s)] >>)

RECURSIVE split(_)
\* s.split(' '): the parts between single spaces, empty parts included
split(s) ==
    IF s = << >> THEN << << >> >>
    ELSE LET r == split(SubSeq(s, 1, Len(s) - 1))
         IN  IF s[Len(s)] = " " THEN Append(r, << >>)
             ELSE [r EXCEPT ![Len(r)] = Append(@, s[Len(s)])]

\* the number of characters of s that are in the set
count_of(s, chars) == Cardinality({ i \in 1..Len(s) : s[i] \in chars })

RECURSIVE mantissa(_)
\* the digits of s read as one integer, the point skipped
mantissa(s) ==
    IF s = << >> THEN 0
    ELSE IF s[Len(s)] = "." THEN mantissa(SubSeq(s, 1, Len(s) - 1))
    ELSE 10 * mantissa(SubSeq(s, 1, Len(s) - 1)) + 1

\* the number of digits behind the point
scale(s) ==
    IF count_of(s, {"."}) = 0 THEN 0
    ELSE Len(s) - (CHOOSE i \in 1..Len(s) : s[i] = ".")

\* split.parse::<f32>(): an optional sign, then digits with at most one point
\* and at least one digit; << >> is Err, << number >> is Ok
parse(token) ==
    LET negative == token # << >> /\ token[1] = "-"
        body == IF negative THEN Tail(token) ELSE token
    IN  IF /\ count_of(body, {"1", "."}) = Len(body)
           /\ count_of(body, {"."}) <= 1
           /\ count_of(body, {"1"}) >= 1
        THEN << [mantissa |-> IF negative THEN 0 - mantissa(body) ELSE mantissa(body),
                 scale |-> scale(body)] >>
        ELSE << >>

\* PositonVisitor::visit_str
visit_str(s) ==
    LET splits == split(s)
    IN  IF Len(splits) # 3 THEN [ok |-> FALSE, error |-> "invalid_length"]
        ELSE IF parse(splits[1]) = << >> \/ parse(splits[2]) = << >> \/ parse(splits[3]) = << >>
             THEN [ok |-> FALSE, error |-> "invalid_type"]
             ELSE [ok |-> TRUE, x |-> parse(splits[1])[1], y |-> parse(splits[2])[1],
                   z |-> parse(splits[3])[1]]

PositionInit ==
    /\ ComputeIdle /\ FilterIdle /\ ApiIdle /\ TeamsIdle /\ RankerIdle
    /\ SliceIdle /\ SummaryIdle /\ PastIdle
    /\ text \in Texts
    /\ position = NotCalled

\* serde_json::from_str::<Position> on the JSON string with the content text
deserialize ==
    /\ position = NotCalled
    /\ position' = visit_str(text)
    /\ UNCHANGED <<computeVars, filterVars, apiVars, teamsVars, sliceVars, summaryVars, pastVars, rankerVars, text>>

PositionNext == deserialize

SpecPosition == PositionInit /\ [][PositionNext]_vars

(***************************************************************************)
(* The Skill Ranker's power iteration (no source file holds it; it is      *)
(* modelled from step 5 of the ranker's algorithm).                        *)
(*                                                                         *)
(* Fixed point: the entries of S are counted in halves, the components of  *)
(* the vector in thousandths; a quotient is truncated.  A vector that      *)
(* cannot be normalised (norm 0, a NaN in floating point) is << >>.        *)
(***************************************************************************)
MaxRanked == 3

IterationCap == 4

\* the convergence threshold 0.1, in thousandths
Threshold == 100

\* 1.0, in thousandths
One == 1000

RECURSIVE isqrt_between(_, _, _)
\* the largest r in lo..hi with r * r <= x
isqrt_between(x, lo, hi) ==
    IF lo = hi THEN lo
    ELSE LET mid == (lo + hi + 1) \div 2
         IN  IF mid * mid <= x THEN isqrt_between(x, mid, hi) ELSE isqrt_between(x, lo, mid - 1)

\* sqrt, truncated
isqrt(x) == isqrt_between(x, 0, 40000)

RECURSIVE sum_squares(_, _)
sum_squares(v, n) == IF n = 0 THEN 0 ELSE sum_squares(v, n - 1) + v[n] * v[n]

\* the Euclidean norm
norm(v) == isqrt(sum_squares(v, Len(v)))

RECURSIVE dot(_, _, _)
dot(row, v, n) == IF n = 0 THEN 0 ELSE dot(row, v, n - 1) + row[n] * v[n]

\* S * v; the entries of S are halves
multiply(S, v) == [i \in 1..Len(v) |-> dot(S[i], v, Len(v)) \div 2]

\* v / |v|, or << >> when the norm is 0
normalize(v) ==
    IF norm(v) = 0 THEN << >> ELSE [i \in 1..Len(v) |-> (v[i] * One) \div norm(v)]

\* one step: multiply by S and renormalise
power_step(S, v) == IF v = << >> THEN << >> ELSE normalize(multiply(S, v))

\* the change between two iterates is below the threshold
converged(v, next) ==
    /\ v # << >> /\ next # << >>
    /\ norm([i \in 1..Len(v) |-> next[i] - v[i]]) < Threshold

\* the score b/a of a pair, in halves, and the score a/b of the mirrored pair
Ratios == { << 0, 0 >>, << 1, 4 >>, << 2, 2 >>, << 4, 1 >> }

\* the matrices S over n players: zero diagonal, mirrored entries reciprocal
\* or both zero
MatricesOf(n) ==
    { [i \in 1..n |-> [j \in 1..n |->
          IF i < j THEN pick[<< i, j >>][1] ELSE IF j < i THEN pick[<< j, i >>][2] ELSE 0]] :
      pick \in [{ << i, j >> \in (1..n) \X (1..n) : i < j } -> Ratios] }

\* the normalised all-ones vector
ones(n) == normalize([i \in 1..n |-> One])

RankerInit ==
    /\ ComputeIdle /\ FilterIdle /\ ApiIdle /\ TeamsIdle /\ PositionIdle
    /\ SliceIdle /\ SummaryIdle /\ PastIdle
    /\ \E n \in 1..MaxRanked : matrix \in MatricesOf(n) /\ weights = ones(n)
    /\ previous = << >>
    /\ iterations = 0
    /\ ranking = [status |-> "running", weights |-> << >>]

\* the cap is reached without convergence: the vector at hand is returned
return_partial ==
    /\ ranking.status = "running"
    /\ iterations = IterationCap
    /\ ranking' = [status |-> "ranked", weights |-> weights]
    /\ UNCHANGED <<computeVars, filterVars, apiVars, teamsVars, sliceVars, summaryVars, pastVars, positionVars,
                   matrix, previous, weights, iterations>>

\* one iteration below the cap; the ranker returns the vector once it converged
iterate ==
    LET next == power_step(matrix, weights)
    IN  /\ ranking.status = "running"
        /\ iterations < IterationCap
        /\ iterations' = iterations + 1
        /\ previous' = weights
        /\ weights' = next
        /\ ranking' = IF converged(weights, next)
                      THEN [status |-> "ranked", weights |-> next]
                      ELSE ranking
        /\ UNCHANGED <<computeVars, filterVars, apiVars, teamsVars, sliceVars, summaryVars, pastVars, positionVars, matrix>>

\* the cap is reached without convergence: the ranking is reported undefined
ranking_undefined ==
    /\ ranking.status = "running"
    /\ iterations = IterationCap
    /\ ranking' = [status |-> "RankingUndefined", weights |-> << >>]
    /\ UNCHANGED <<computeVars, filterVars, apiVars, teamsVars, sliceVars, summaryVars, pastVars, positionVars,
                   matrix, previous, weights, iterations>>

RankerNext == iterate \/ ranking_undefined

SpecRanker == RankerInit /\ [][RankerNext]_vars

(***************************************************************************)
(* summarize_game (ns2-stat/src/lib.rs)                                    *)
(*                                                                         *)
(* The u32 amount of the resource-tower graph is written as its two 16-bit *)
(* halves << high, low >>, so that 2^32 - 1, the value a wrapping          *)
(* subtraction leaves below zero, is a value of the model.                 *)
(***************************************************************************)
MaxBuildings == 3

\* a Building with the fields compute_rt_graph reads; event is the Option's
\* variant, "None" for None
Building(team, game_time, built, tech_id, event) ==
    [team |-> team, game_time |-> game_time, built |-> built, tech_id |-> tech_id, event |-> event]

\* the marines' tower built, destroyed, recycled, and destroyed before it was
\* complete; another building; the aliens' tower built, and placed
Buildings ==
    { Building("Marines", 10, TRUE, "Extractor", "Built"),
      Building("Marines", 20, TRUE, "Extractor", "Destroyed"),
      Building("Marines", 30, TRUE, "Extractor", "Recycled"),
      Building("Marines", 5, FALSE, "Extractor", "Destroyed"),
      Building("Marines", 12, TRUE, "Armory", "Built"),
      Building("Aliens", 15, TRUE, "Harvester", "Built"),
      Building("Aliens", 8, TRUE, "Harvester", "Placed") }

\* a GameStats with its buildings
WithBuildings(game, buildings) ==
    [round_info |-> game.round_info, player_stats |-> game.player_stats, buildings |-> buildings]

\* let rt_name = match team { .. }
rt_name(team) == IF team = "Aliens" THEN "Harvester" ELSE "Extractor"

RECURSIVE rt_changes(_, _, _)
\* the filter and the filter_map over the first n buildings: (game_time, add)
\* for every event they let through
rt_changes(team, buildings, n) ==
    IF n = 0 THEN << >>
    ELSE LET b == buildings[n]
             before == rt_changes(team, buildings, n - 1)
         IN  IF ~(b.team = team /\ b.built /\ b.tech_id = rt_name(team)) THEN before
             ELSE IF b.event = "Built" THEN Append(before, << b.game_time, TRUE >>)
             ELSE IF b.event \in { "Destroyed", "Recycled" } THEN Append(before, << b.game_time, FALSE >>)
             ELSE before

\* *rt += 1 on u32, wrapping
u32_add_one(v) == IF v[2] < 65535 THEN << v[1], v[2] + 1 >> ELSE << (v[1] + 1) % 65536, 0 >>

\* *rt -= 1 on u32, wrapping
u32_sub_one(v) == IF v[2] > 0 THEN << v[1], v[2] - 1 >> ELSE << (v[1] - 1) % 65536, 65535 >>

RECURSIVE scan(_, _, _)
\* the scan over the first n changes, collected: with overflow checks a step
\* out of the range of u32 panics, without them it wraps
scan(build, changes, n) ==
    IF n = 0 THEN [panic |-> FALSE, rt |-> << 0, 0 >>, items |-> << >>]
    ELSE LET before == scan(build, changes, n - 1)
             add == changes[n][2]
             overflow == before.rt = (IF add THEN << 65535, 65535 >> ELSE << 0, 0 >>)
             rt == IF add THEN u32_add_one(before.rt) ELSE u32_sub_one(before.rt)
         IN  IF before.panic THEN before
             ELSE IF build = "debug" /\ overflow THEN [before EXCEPT !.panic = TRUE]
             ELSE [panic |-> FALSE, rt |-> rt,
                   items |-> Append(before.items, << changes[n][1], rt >>)]

\* compute_rt_graph: the collected scan, and the final amount at round_length
compute_rt_graph(build, team, buildings, round_length) ==
    LET changes == rt_changes(team, buildings, Len(buildings))
        scanned == scan(build, changes, Len(changes))
    IN  IF scanned.panic THEN [panic |-> TRUE, rt_graph |-> << >>]
        ELSE IF scanned.items = << >> THEN [panic |-> FALSE, rt_graph |-> << >>]
        ELSE [panic |-> FALSE,
              rt_graph |-> Append(scanned.items, << round_length, scanned.rt >>)]

RECURSIVE team_players(_, _, _)
\* the map `marines` or `aliens` after the loop has handled the first n players
team_players(team, game, n) ==
    IF n = 0 THEN EmptyMap
    ELSE LET player_stat == game.player_stats[n]
             before == team_players(team, game, n - 1)
             on == IF player_stat.marines.time_played > player_stat.aliens.time_played
                   THEN "Marines" ELSE "Aliens"
             stats == TeamSide(on, player_stat)
         IN  IF on # team THEN before
             ELSE MapPut(before, player_stat.player_name,
                         [kills |-> stats.kills, assists |-> stats.assists,
                          deaths |-> stats.deaths, score |-> stats.score,
                          hits |-> stats.hits, misses |-> stats.misses])

\* TeamSummary { players, commander, rt_graph }
TeamSummary(team, game, graph) ==
    [players |-> team_players(team, game, Len(game.player_stats)),
     commander |-> get_commander(team, game.player_stats),
     rt_graph |-> graph.rt_graph]

\* the GameSummary summarize_game returns, or the panic it ends in
GameSummary(build, game) ==
    LET round_info == game.round_info
        alien_graph == compute_rt_graph(build, "Aliens", game.buildings, round_info.round_length)
        marine_graph == compute_rt_graph(build, "Marines", game.buildings, round_info.round_length)
    IN  IF alien_graph.panic \/ marine_graph.panic THEN [panic |-> TRUE]
        ELSE [panic |-> FALSE,
              round_date |-> round_info.round_date,
              winning_team |-> round_info.winning_team,
              round_length |-> round_info.round_length,
              map_name |-> round_info.map_name,
              aliens |-> TeamSummary("Aliens", game, alien_graph),
              marines |-> TeamSummary("Marines", game, marine_graph)]

\* the matches of the summaries: every roster of the aggregation runs and a
\* full roster, with every list of buildings
SummaryGames ==
    { WithBuildings(Game(RoundInfo(2, "Marines", 512, "m1"), ps), bs) :
        ps \in Rosters \cup { FullRoster },
        bs \in UNION { [1..n -> Buildings] : n \in 0..MaxBuildings } }

SummaryInit ==
    /\ ComputeIdle /\ FilterIdle /\ ApiIdle /\ TeamsIdle /\ PositionIdle /\ RankerIdle
    /\ SliceIdle /\ PastIdle
    /\ summarized \in SummaryGames
    /\ summary = NotCalled

\* summarize_game(&game)
summarize_game ==
    \E build \in Builds :
        /\ summary = NotCalled
        /\ summary' = GameSummary(build, summarized)
        /\ UNCHANGED <<computeVars, filterVars, apiVars, teamsVars, positionVars, rankerVars,
                       sliceVars, pastVars, summarized>>

\* NS2Stats::compute over the one match
compute_summarized ==
    /\ seen = << >>
    /\ seen' = << summarized >>
    /\ acc' = compute_game(acc, summarized)
    /\ UNCHANGED <<outcome, filterVars, apiVars, teamsVars, positionVars, rankerVars,
                   sliceVars, pastVars, summaryVars>>

SummaryNext == summarize_game \/ compute_summarized

SpecSummary == SummaryInit /\ [][SummaryNext]_vars

(***************************************************************************)
(* analyze_past_games (ns2-stat-cli/src/teams.rs)                          *)
(***************************************************************************)
MaxHistory == 2

\* a roster on which one player was as long on either side
TiedRoster ==
    << Player(1, "a", Chair, Field), Player(2, "b", Brief, Chair), Player(3, "c", Field, Brief) >>

\* a roster on which two players share a display name
SharedNameRoster ==
    << Player(1, "a", Field, Brief), Player(2, "a", Brief, Field), Player(3, "b", Chair, Brief) >>

\* the matches suggest_teams passes on: genuine ones
PastGames ==
    { WithBuildings(Game(RoundInfo(1, "Marines", 512, "m1"), ps), << >>) :
        ps \in { FullRoster, TiedRoster, SharedNameRoster } }
    \cup { WithBuildings(Game(RoundInfo(2, "Aliens", 300, "m2"), FullRoster), << >>) }

RECURSIVE past_team(_, _, _)
\* the Team `marines` or `aliens`, and its *_com_time, after the loop has
\* handled the first n players
past_team(team, game, n) ==
    IF n = 0 THEN [commander |-> "", players |-> << >>, com_time |-> 0]
    ELSE LET player_stat == game.player_stats[n]
             before == past_team(team, game, n - 1)
             on == IF player_stat.marines.time_played >= player_stat.aliens.time_played
                   THEN "Marines" ELSE "Aliens"
             commander_time == TeamSide(team, player_stat).commander_time
         IN  IF on # team THEN before
             ELSE [commander |-> IF commander_time > before.com_time
                                 THEN player_stat.player_name ELSE before.commander,
                   players |-> Append(before.players, player_stat.player_name),
                   com_time |-> IF commander_time > before.com_time
                                THEN commander_time ELSE before.com_time]

\* the PastGame the map closure builds
PastGame(game) ==
    LET marines == past_team("Marines", game, Len(game.player_stats))
        aliens == past_team("Aliens", game, Len(game.player_stats))
    IN  [length |-> game.round_info.round_length,
         winner |-> game.round_info.winning_team,
         marines |-> [commander |-> marines.commander, players |-> marines.players],
         aliens |-> [commander |-> aliens.commander, players |-> aliens.players]]

\* (game.length * 1000.0) as u32, the length in whole seconds
length_key(past_game) == past_game.length * 1000

RECURSIVE insert_by_length(_, _)
\* x put behind every element whose key is not smaller
insert_by_length(s, x) ==
    IF s = << >> THEN << x >>
    ELSE IF length_key(s[Len(s)]) >= length_key(x) THEN Append(s, x)
    ELSE Append(insert_by_length(SubSeq(s, 1, Len(s) - 1), x), s[Len(s)])

RECURSIVE sort_by_length(_, _)
\* summarized_games.sort_by_key(|game| cmp::Reverse(..)): a stable sort, the
\* longest match first
sort_by_length(s, n) ==
    IF n = 0 THEN << >> ELSE insert_by_length(sort_by_length(s, n - 1), s[n])

\* Vec::contains
contains(s, x) == \E k \in 1..Len(s) : s[k] = x

\* the closure of the filter; an Option is << >> for None and << name >> for Some
roster_matches(past_game, roster, marine_commander, alien_commander) ==
    /\ Len(roster) = Len(past_game.marines.players) + Len(past_game.aliens.players)
    /\ \A i \in 1..Len(marine_commander) : marine_commander[i] = past_game.marines.commander
    /\ \A i \in 1..Len(alien_commander) : alien_commander[i] = past_game.aliens.commander
    /\ \A i \in 1..Len(roster) :
          \/ contains(past_game.marines.players, roster[i])
          \/ contains(past_game.aliens.players, roster[i])

\* the rosters asked for: names of the matches, a name more than once included
PastRosters == UNION { [1..n -> { "a", "b", "c" }] : n \in 0..MaxRoster }

PastInit ==
    /\ ComputeIdle /\ FilterIdle /\ ApiIdle /\ TeamsIdle /\ PositionIdle /\ RankerIdle
    /\ SliceIdle /\ SummaryIdle
    /\ history \in UNION { [1..n -> PastGames] : n \in 1..MaxHistory }
    /\ past = NotCalled

\* analyze_past_games(games, players, marine_commander, alien_commander), the
\* returned iterator run to its end
analyze_past_games ==
    \E roster \in PastRosters :
      \E marine_commander \in { << >>, << "c" >> } : \E alien_commander \in { << >>, << "b" >> } :
        LET summarized_games == sort_by_length([i \in 1..Len(history) |-> PastGame(history[i])],
                                               Len(history))
        IN  /\ past = NotCalled
            /\ past' = [players |-> roster,
                        marine_commander |-> marine_commander,
                        alien_commander |-> alien_commander,
                        summarized_games |-> summarized_games,
                        games |-> SelectSeq(summarized_games,
                                     LAMBDA g : roster_matches(g, roster, marine_commander,
                                                               alien_commander))]
            /\ UNCHANGED <<computeVars, filterVars, apiVars, teamsVars, positionVars, rankerVars,
                           sliceVars, summaryVars, history>>

PastNext == analyze_past_games

SpecPast == PastInit /\ [][PastNext]_vars

(***************************************************************************)
(* What the claims about compute speak of                                  *)
(***************************************************************************)
RECURSIVE SumOver(_, _)
\* the sum of f over the finite set S
SumOver(f, S) ==
    IF S = {} THEN 0
    ELSE LET x == CHOOSE y \in S : TRUE IN f[x] + SumOver(f, S \ {x})

\* the player records of a match sequence, as <<match index, position>>
Records(games) ==
    UNION { { <<i, j>> : j \in 1..Len(games[i].player_stats) } : i \in 1..Len(games) }

Rec(games, r) == games[r[1]].player_stats[r[2]]

RecordsNamed(games, name) == { r \in Records(games) : Rec(games, r).player_name = name }

Names(games) == { Rec(games, r).player_name : r \in Records(games) }

Ids(games) == { Rec(games, r).id : r \in Records(games) }

IntCounters == {"games", "commander", "wins", "kills", "assists", "deaths", "hits", "misses"}

SideCounters == {"kills", "assists", "deaths", "hits", "misses"}

\* C3 as stated: every additive counter of every user, the f32 score
\* included, has total == marines + aliens (the sum taken as f32 adds it).
C3_TotalIsSumOfSides ==
    \A name \in DOMAIN acc.users :
        /\ \A c \in IntCounters :
              acc.users[name][c].total = acc.users[name][c].marines + acc.users[name][c].aliens
        /\ acc.users[name].score.total
              = F32Add(acc.users[name].score.marines, acc.users[name].score.aliens)

\* C3 amended: every integer counter of every user (games, commander, wins,
\* kills, assists, deaths, hits, misses) has total == marines + aliens.
C3_IntegerTotalIsSumOfSides ==
    \A name \in DOMAIN acc.users : \A c \in IntCounters :
        acc.users[name][c].total = acc.users[name][c].marines + acc.users[name][c].aliens

\* a user with games, kills and command credits on both sides
C3_Witness ==
    \E name \in DOMAIN acc.users :
        /\ acc.users[name].kills.marines > 0 /\ acc.users[name].kills.aliens > 0
        /\ acc.users[name].games.marines > 0 /\ acc.users[name].games.aliens > 0
        /\ acc.users[name].commander.marines > 0 /\ acc.users[name].commander.aliens > 0

\* C4: for every user, each of kills, assists, deaths, hits and misses has
\* marines = the sum of the marine-side values of the user's records,
\* aliens = the sum of the alien-side values, total = the sum of both.
C4_BothSidesAccumulated ==
    \A name \in DOMAIN acc.users : \A c \in SideCounters :
        LET recs == RecordsNamed(seen, name)
            m == SumOver([r \in recs |-> Rec(seen, r).marines[c]], recs)
            a == SumOver([r \in recs |-> Rec(seen, r).aliens[c]], recs)
        IN  /\ acc.users[name][c].marines = m
            /\ acc.users[name][c].aliens = a
            /\ acc.users[name][c].total = m + a

\* the side with the larger time_played, an exact tie going to tieSide
LargerSide(player_stat, tieSide) ==
    IF player_stat.marines.time_played > player_stat.aliens.time_played THEN "Marines"
    ELSE IF player_stat.marines.time_played < player_stat.aliens.time_played THEN "Aliens"
    ELSE tieSide

\* C5: every player record adds one game to total and to the side with the
\* larger time_played (every exact tie to one and the same side), and one
\* win there exactly when that side is the match's winning team.
C5_GamesAndWinsOnAttributionSide ==
    \E tieSide \in {"Marines", "Aliens"} :
        /\ DOMAIN acc.users = Names(seen)
        /\ \A name \in DOMAIN acc.users :
              LET recs == RecordsNamed(seen, name)
                  on(side) == { r \in recs : LargerSide(Rec(seen, r), tieSide) = side }
                  won(side) == { r \in on(side) : seen[r[1]].round_info.winning_team = side }
              IN  /\ acc.users[name].games.total = Cardinality(recs)
                  /\ acc.users[name].games.marines = Cardinality(on("Marines"))
                  /\ acc.users[name].games.aliens = Cardinality(on("Aliens"))
                  /\ acc.users[name].wins.marines = Cardinality(won("Marines"))
                  /\ acc.users[name].wins.aliens = Cardinality(won("Aliens"))
                  /\ acc.users[name].wins.total
                        = Cardinality(won("Marines")) + Cardinality(won("Aliens"))

\* a user with a tied record has won and not won matches on the tie's side,
\* and a user has won and not won matches as a marine
C5_Witness ==
    /\ \E name \in DOMAIN acc.users :
          /\ \E r \in RecordsNamed(seen, name) :
                Rec(seen, r).marines.time_played = Rec(seen, r).aliens.time_played
          /\ acc.users[name].wins.aliens > 0
          /\ acc.users[name].wins.aliens < acc.users[name].games.aliens
    /\ \E name \in DOMAIN acc.users :
          /\ acc.users[name].wins.marines > 0
          /\ acc.users[name].wins.marines < acc.users[name].games.marines

\* C7: aggregates are keyed by player id: records with distinct ids never
\* share an entry, so there are at least as many entries as ids seen.
C7_KeyedByPlayerId == Cardinality(DOMAIN acc.users) >= Cardinality(Ids(seen))

\* the player the claim credits: maximum commander_time on the side, the
\* lowest id among several with the maximum
FirstMaximum(team, player_stats) ==
    LET idx  == 1..Len(player_stats)
        ct(i) == TeamSide(team, player_stats[i]).commander_time
        best == { i \in idx : \A j \in idx : ct(i) >= ct(j) }
    IN  CHOOSE i \in best : \A j \in best : player_stats[i].id <= player_stats[j].id

\* C8: per match and side, the commander counter of exactly the player with
\* the maximum commander_time (lowest id on a tie) is incremented.
C8_CommanderIsFirstMaximum ==
    \A name \in DOMAIN acc.users : \A team \in {"Marines", "Aliens"} :
        LET credited == { i \in 1..Len(seen) :
                            /\ seen[i].player_stats # << >>
                            /\ seen[i].player_stats[FirstMaximum(team, seen[i].player_stats)].player_name
                                   = name }
        IN  (IF team = "Marines" THEN acc.users[name].commander.marines
                                 ELSE acc.users[name].commander.aliens) = Cardinality(credited)

RECURSIVE SubSeqAt(_, _, _)
SubSeqAt(s, idx, n) ==
    IF n = 0 THEN << >>
    ELSE IF n \in idx THEN Append(SubSeqAt(s, idx, n - 1), s[n])
    ELSE SubSeqAt(s, idx, n - 1)

\* C1: for every split of the match sequence into two sub-sequences A and B,
\* compute over all matches equals merge(compute(A), compute(B)) in every field.
C1_ComputeIsMergeOfParts ==
    \A idx \in SUBSET (1..Len(seen)) :
        merge(compute(SubSeqAt(seen, idx, Len(seen))),
              compute(SubSeqAt(seen, (1..Len(seen)) \ idx, Len(seen)))) = acc

\* the players of a match with a nonzero time_played on the side
PlayedOn(team, game) ==
    { i \in 1..Len(game.player_stats) : TeamSide(team, game.player_stats[i]).time_played # 0 }

\* the claim's rule: long enough, and more than 2 players on both sides
C6_Rule(game) ==
    /\ game.round_info.round_length >= 300
    /\ Cardinality(PlayedOn("Marines", game)) > 2
    /\ Cardinality(PlayedOn("Aliens", game)) > 2

\* C6: genuine() keeps exactly the matches of at least 300 seconds with more
\* than 2 players on each side, in their order; a match without players is
\* excluded.
C6_GenuineKeepsExactlyTheRule ==
    /\ kept = SelectSeq(input, C6_Rule)
    /\ \A i \in 1..Len(kept) : kept[i].player_stats # << >>

\* two different matches kept around one that only the length rule excludes
C6_Witness ==
    /\ Len(input) = 3 /\ Len(kept) = 2 /\ kept[1] # kept[2]
    /\ kept = << input[1], input[3] >>
    /\ input[2].round_info.round_length = 299
    /\ Cardinality(PlayedOn("Marines", input[2])) = 3

\* C2: while the server runs, data.stats is compute over the genuine games of
\* data.games.
C2_StatsIsComputeOfGenuineGames ==
    phase = "serving" => data_stats = compute(genuine(data_games))

Range(s) == { s[i] : i \in 1..Len(s) }

\* the two groups of a returned assignment, as an unordered pair of sets
Split(a) == { Range(a[1]), Range(a[2]) }

\* every unordered bipartition of the roster with group sizes at most one apart
BalancedSplits(roster) ==
    { {A, Range(roster) \ A} : A \in { B \in SUBSET Range(roster) :
          abs_diff(Cardinality(B), Cardinality(Range(roster) \ B)) <= 1 } }

\* C10: the assignments returned are disjoint and cover the roster, no
\* bipartition is returned twice (neither as (A, B) nor as (B, A)), and the
\* exhausted iterator has returned every balanced bipartition.
C10_EveryBalancedSplitOnce ==
    /\ \A i \in 1..Len(suggestions) :
          /\ Range(suggestions[i][1]) \cap Range(suggestions[i][2]) = {}
          /\ Range(suggestions[i][1]) \cup Range(suggestions[i][2]) = Range(players)
          /\ Len(suggestions[i][1]) + Len(suggestions[i][2]) = Len(players)
    /\ \A i, j \in 1..Len(suggestions) : i # j => Split(suggestions[i]) # Split(suggestions[j])
    /\ (players # << >> /\ cursor = Len(total_scores)) =>
          { Split(suggestions[i]) : i \in 1..Len(suggestions) } = BalancedSplits(players)

\* the iterator over a roster of four is exhausted and has returned three splits
C10_Witness ==
    /\ Len(players) = 4 /\ cursor = Len(total_scores) /\ Len(suggestions) = 3

\* C11: the two teams of every returned assignment differ in size by at most
\* one player.
C11_TeamSizesDifferByAtMostOne ==
    \A i \in 1..Len(suggestions) :
        abs_diff(Len(suggestions[i][1]), Len(suggestions[i][2])) <= 1

\* a roster of three and one of four can each be split: 2 against 1 is returned,
\* and of the masks of four players some were held back by the filter
C11_Witness ==
    /\ cursor = Len(total_scores) /\ suggestions # << >>
    /\ \/ Len(players) = 3 /\ Len(suggestions[1][1]) # Len(suggestions[1][2])
       \/ Len(players) = 4 /\ Len(suggestions) < Len(total_scores)

RECURSIVE SumScore(_, _)
\* the sum of the players' scores over a team, exact
SumScore(team, n) == IF n = 0 THEN 0 ELSE SumScore(team, n - 1) + score[team[n]]

\* abs(sum of score over team1 - sum of score over team2), exact
imbalance(a) == abs_diff(SumScore(a[1], Len(a[1])), SumScore(a[2], Len(a[2])))

\* the mask of a returned assignment: bit i is set when player i is in team2
mask_of(a) == CHOOSE p \in 0..(mask_count(Len(players)) - 1) : assignment(players, p) = a

\* C12: the assignments come in ascending order of imbalance, and assignments
\* of equal imbalance in ascending order of their mask.
C12_AscendingImbalanceThenMask ==
    \A i, j \in 1..Len(suggestions) :
        i < j => \/ imbalance(suggestions[i]) < imbalance(suggestions[j])
                 \/ /\ imbalance(suggestions[i]) = imbalance(suggestions[j])
                    /\ mask_of(suggestions[i]) < mask_of(suggestions[j])

\* the roster [p0, p1, p2, p3] with the scores [10, 10, -10, -10]
Scenario ==
    /\ players = SubSeq(PlayerNames, 1, 4)
    /\ score = [x \in Range(players) |-> IF x \in {"p0", "p1"} THEN 20480 ELSE 0 - 20480]

\* C13 as stated: in the scenario the first assignment returned is the split
\* {p0, p1} against {p2, p3}, and its imbalance is zero.
C13_FirstIsP0P1AgainstP2P3 ==
    (Scenario /\ suggestions # << >>) =>
        /\ Split(suggestions[1]) = { {"p0", "p1"}, {"p2", "p3"} }
        /\ imbalance(suggestions[1]) = 0

\* C13, amended: in the scenario the first assignment returned has imbalance
\* zero and is team1 = [p1, p3], team2 = [p0, p2]; the split {p0, p1} against
\* {p2, p3} has imbalance 40 and is returned last.
C13_FirstIsZeroImbalanceSplit ==
    (Scenario /\ suggestions # << >>) =>
        /\ suggestions[1] = << << "p1", "p3" >>, << "p0", "p2" >> >>
        /\ imbalance(suggestions[1]) = 0
        /\ \A i \in 1..Len(suggestions) :
              Split(suggestions[i]) = { {"p0", "p1"}, {"p2", "p3"} } =>
                  imbalance(suggestions[i]) = 40 * 2048 /\ i = 3

\* the iterator of the scenario has returned all three of its assignments
C13_Witness == Scenario /\ Len(suggestions) = 3 /\ imbalance(suggestions[3]) > 0

\* a ceiling below the largest roster of the runs; balanced_partitioning has
\* none, so the value taken makes no difference
Ceiling == MaxRoster - 1

\* C14: for a roster above the ceiling no table of sums is built and no mask
\* is enumerated.
C14_OversizedRosterIsRejected ==
    Len(players) > Ceiling => total_scores = << >> /\ suggestions = << >>

\* C17: genuine() over the matches genuine() has yielded yields the same
\* matches in the same order.
C17_GenuineIsIdempotent == genuine(kept) = kept

\* the filter has dropped the first and the last of three matches and kept the
\* one between them
C17_Witness ==
    /\ Len(input) = 3 /\ kept = << input[2] >>
    /\ input[1].round_info.round_length = 300
    /\ input[3].round_info.round_length = 299

\* the positions of the spaces of the text
Spaces == { i \in 1..Len(text) : text[i] = " " }

\* the text is three numbers with one space between each two of them
ThreeNumbers ==
    /\ Cardinality(Spaces) = 2
    /\ \E i, j \in Spaces :
          /\ i < j
          /\ parse(SubSeq(text, 1, i - 1)) # << >>
          /\ parse(SubSeq(text, i + 1, j - 1)) # << >>
          /\ parse(SubSeq(text, j + 1, Len(text))) # << >>

\* C19: deserialising succeeds exactly when the text is three numbers split by
\* single spaces, and then gives x, y, z in that order; every other text gives
\* an error, and a text with another number of parts the error of its length.
C19_PositionIsThreeNumbers ==
    position # NotCalled =>
        /\ position.ok = ThreeNumbers
        /\ position.ok =>
              \E i, j \in Spaces :
                  /\ i < j
                  /\ << position.x >> = parse(SubSeq(text, 1, i - 1))
                  /\ << position.y >> = parse(SubSeq(text, i + 1, j - 1))
                  /\ << position.z >> = parse(SubSeq(text, j + 1, Len(text)))
        /\ (~position.ok) => position.error \in {"invalid_length", "invalid_type"}
        /\ Cardinality(Spaces) # 2 => ~position.ok /\ position.error = "invalid_length"

\* a text of three different numbers has been deserialised
C19_Witness ==
    /\ position # NotCalled /\ position.ok
    /\ position.x # position.y /\ position.y # position.z /\ position.x # position.z

\* the post_game requests whose game is in data.games
Pushed == { i \in 1..Len(pending) : pending[i].at # "push" }

\* the matches main loaded, and the matches post_game appended behind them
LoadedGames == SubSeq(data_games, 1, Len(data_games) - Cardinality(Pushed))

PostedGames == SubSeq(data_games, Len(data_games) - Cardinality(Pushed) + 1, Len(data_games))

\* what post_game merges for each match that can be posted
Contribution == [game \in ApiGames |-> stats_from(game)]

\* what main computes for each sequence of matches it can load
Listings ==
    UNION { { sort_by_key(listing, Len(listing)) : listing \in Orders({ dir[d] : d \in DOMAIN dir }) } :
            dir \in DataDirs }

LoadedStats == [games \in Listings |-> compute(genuine(games))]

RECURSIVE MergeAll(_, _, _)
\* stats with the contributions of the first n of the games merged in, in order
MergeAll(stats, games, n) ==
    IF n = 0 THEN stats ELSE merge(MergeAll(stats, games, n - 1), Contribution[games[n]])

\* C15: whenever a GET handler holds its read guard, data.stats holds the
\* contribution of exactly the posted games that data.games contains, each of
\* them once.
C15_ReadersSeeWholeUpdates ==
    readers # {} =>
        data_stats = MergeAll(LoadedStats[LoadedGames], PostedGames, Len(PostedGames))

\* a GET handler reads while one post_game is between its two sections and
\* another one is through
C15_Witness ==
    /\ readers # {} /\ Len(pending) = 2
    /\ pending[1].at = "done" /\ pending[2].at = "read"

\* the orders n requests can take the write lock in
LockOrders == [n \in 0..MaxPending |-> Orders(1..n)]

\* the games of the requests, in the order perm
Reordered(perm) == [i \in 1..Len(perm) |-> pending[perm[i]].game]

\* a snapshot without the f32 score sums of its users
WithoutScore(stats) ==
    [stats EXCEPT !.users = [name \in DOMAIN stats.users |->
                                [stats.users[name] EXCEPT !.score = StatDefault]]]

\* every request has returned: no post_game is between its sections, no GET
\* handler holds a guard
Quiescent == readers = {} /\ \A i \in 1..Len(pending) : pending[i].at = "done"

C20_RequestPersistsItsOwnGame ==
    ~no_copy =>
        /\ \A i \in 1..Len(pending) :
              pending[i].at = "done" => pending[i].last = << pending[i].game >>
        /\ (\A i \in 1..Len(pending) : pending[i].at = "done") =>
              \A i \in 1..Len(pending) : date(pending[i].game) \in DOMAIN files

\* C18: the power iteration does at most IterationCap steps; a returned
\* vector is one whose last step changed it by less than the threshold; and
\* when the cap is reached without that, the result is RankingUndefined and
\* carries no vector.
C18_CapReachedIsRankingUndefined ==
    /\ iterations <= IterationCap
    /\ ranking.status \in {"running", "ranked", "RankingUndefined"}
    /\ ranking.status = "ranked" =>
          /\ ranking.weights = weights /\ weights # << >>
          /\ power_step(matrix, previous) = weights /\ converged(previous, weights)
    /\ ranking.status = "RankingUndefined" =>
          iterations = IterationCap /\ ranking.weights = << >>
    /\ (iterations = IterationCap /\ ranking.status = "running") =>
          ENABLED ranking_undefined

\* a matrix of three players, the second with a signal against both others,
\* ran into the cap with a vector at hand and was reported undefined
C18_Witness ==
    /\ ranking.status = "RankingUndefined" /\ Len(matrix) = 3 /\ weights # << >>
    /\ matrix[1][2] # 0 /\ matrix[2][3] # 0

\* C21: in every state of the server, data.games is in ascending round_date
\* order.
C21_GamesSortedByDate ==
    \A i, j \in 1..Len(data_games) : i < j => date(data_games[i]) <= date(data_games[j])

\* C29: the global counters are the sums of the per-map counters
\* (total_games, marine_wins, alien_wins), and on every map
\* marine_wins + alien_wins <= total_games.
C29_GlobalIsSumOfMaps ==
    LET maps == DOMAIN acc.maps
    IN  /\ acc.total_games = SumOver([m \in maps |-> acc.maps[m].total_games], maps)
        /\ acc.marine_wins = SumOver([m \in maps |-> acc.maps[m].marine_wins], maps)
        /\ acc.alien_wins = SumOver([m \in maps |-> acc.maps[m].alien_wins], maps)
        /\ \A m \in maps :
              acc.maps[m].marine_wins + acc.maps[m].alien_wins <= acc.maps[m].total_games

\* three matches on two maps: one won by each side and one without a winner
C29_Witness ==
    /\ Cardinality(DOMAIN acc.maps) = 2
    /\ acc.marine_wins = 1 /\ acc.alien_wins = 1 /\ acc.total_games = 3
    /\ \E m \in DOMAIN acc.maps : acc.maps[m].total_games = 2 /\ acc.maps[m].marine_wins = 1

\* C30: every user has wins <= games on total, marines and aliens, and no
\* user's games.total exceeds total_games.
C30_WinsWithinGamesWithinMatches ==
    \A name \in DOMAIN acc.users :
        /\ acc.users[name].wins.total <= acc.users[name].games.total
        /\ acc.users[name].wins.marines <= acc.users[name].games.marines
        /\ acc.users[name].wins.aliens <= acc.users[name].games.aliens
        /\ acc.users[name].games.total <= acc.total_games

\* C24: the call with an empty roster does not fail and yields no assignment
\* or the one assignment of two empty groups; the call with a roster of one
\* yields exactly the assignment that has the player alone in the first group.
C24_SmallRostersAreHandled ==
    /\ (partitioning # "idle" /\ Len(players) = 0) =>
          /\ partitioning = "iterating"
          /\ cursor = Len(total_scores) => suggestions \in { << >>, << << << >>, << >> >> >> }
    /\ (partitioning # "idle" /\ Len(players) = 1) =>
          /\ partitioning = "iterating"
          /\ cursor = Len(total_scores) => suggestions = << << << players[1] >>, << >> >> >>

\* the list is in ascending date order
SortedByDate(s) == \A i, j \in 1..Len(s) : i < j => date(s[i]) <= date(s[j])

\* C22: on a list in date order slice returns a sub-slice and does not fail,
\* for every combination of the optional bounds, from > to included.
C22_SliceOfSortedNeverFails ==
    (sliced # NotCalled /\ SortedByDate(slice_data)) => ~sliced.panic

\* from <= to, a missing bound being no bound
BoundsInOrder(q) == q.from = << >> \/ q.to = << >> \/ q.from[1] <= q.to[1]

\* from <= d <= to for the date d of the match
InBounds(game) ==
    /\ slice_query.from = << >> \/ slice_query.from[1] <= date(game)
    /\ slice_query.to = << >> \/ date(game) <= slice_query.to[1]

\* C23: on a list in date order and with from <= to, slice returns exactly the
\* elements with from <= date <= to, both bounds inclusive, in their order.
C23_SliceIsTheInclusiveRange ==
    (sliced # NotCalled /\ SortedByDate(slice_data) /\ BoundsInOrder(slice_query)) =>
        /\ ~sliced.panic
        /\ sliced.items = SelectSeq(slice_data, InBounds)

\* a list of three with two different matches on the date both bounds name:
\* both are returned, the earlier match is not
C23_Witness ==
    /\ sliced # NotCalled /\ SortedByDate(slice_data) /\ Len(slice_data) = 3
    /\ slice_query.from = << 2 >> /\ slice_query.to = << 2 >>
    /\ sliced.items = << slice_data[2], slice_data[3] >>
    /\ slice_data[2] # slice_data[3]

\* nobody has a positive commander_time on the side in the match
NobodyCommanded(team, game) ==
    \A i \in 1..Len(game.player_stats) : TeamSide(team, game.player_stats[i]).commander_time <= 0

\* C25: for a side nobody commanded, summarize_game gives the commander None,
\* and compute adds to no user's commander counter of that side.
C25_NoCommanderWhenNobodyCommanded ==
    \A team \in { "Marines", "Aliens" } :
        NobodyCommanded(team, summarized) =>
            /\ (summary # NotCalled /\ ~summary.panic) =>
                  (IF team = "Marines" THEN summary.marines ELSE summary.aliens).commander = << >>
            /\ \A name \in DOMAIN acc.users :
                  (IF team = "Marines" THEN acc.users[name].commander.marines
                                       ELSE acc.users[name].commander.aliens) = 0

\* the changes of the team's tower amount in the match: TRUE for a Built event
\* of a complete tower of the team, FALSE for a Destroyed or Recycled one
TowerEvents(team, buildings) ==
    LET towers == SelectSeq(buildings,
                      LAMBDA b : /\ b.team = team /\ b.built
                                 /\ b.tech_id = (IF team = "Marines" THEN "Extractor" ELSE "Harvester")
                                 /\ b.event \in { "Built", "Destroyed", "Recycled" })
    IN  [k \in 1..Len(towers) |-> << towers[k].game_time, towers[k].event = "Built" >>]

\* C27: summarize_game does not fail, and the graph of each team holds after
\* its k-th tower event the time of the event and the amount built - lost over
\* the first k events, which is never below zero.
C27_RtAmountIsBuiltMinusLost ==
    summary # NotCalled =>
        /\ ~summary.panic
        /\ \A team \in { "Marines", "Aliens" } :
              LET events == TowerEvents(team, summarized.buildings)
                  graph == (IF team = "Marines" THEN summary.marines ELSE summary.aliens).rt_graph
              IN  \A k \in 1..Len(events) :
                      LET up == Cardinality({ i \in 1..k : events[i][2] })
                      IN  /\ up >= k - up
                          /\ k <= Len(graph)
                          /\ graph[k] = << events[k][1], << 0, up - (k - up) >> >>

\* C28: every returned past game was played by exactly the roster asked for
\* (the names of its marines and aliens are the names of the roster), and a
\* commander asked for is the commander of that side in the game.
C28_ReturnedGamesMatchTheRoster ==
    past # NotCalled =>
        \A k \in 1..Len(past.games) :
            /\ Range(past.games[k].marines.players) \cup Range(past.games[k].aliens.players)
                  = Range(past.players)
            /\ past.marine_commander # << >> =>
                  past.games[k].marines.commander = past.marine_commander[1]
            /\ past.alien_commander # << >> =>
                  past.games[k].aliens.commander = past.alien_commander[1]

\* the matches were given longest first, so the sort leaves each at its place
LongestFirst ==
    \A i, j \in 1..Len(history) :
        i < j => history[i].round_info.round_length >= history[j].round_info.round_length

\* C26: compute, summarize_game and analyze_past_games put every player record
\* on the same side, a record with equal time_played on both sides included
\* (taken over the records whose name no other record of the match has).
C26_OneAttributionPolicy ==
    (past # NotCalled /\ LongestFirst) =>
        \A k \in 1..Len(history) : \A j \in 1..Len(history[k].player_stats) :
            LET player_stat == history[k].player_stats[j]
                name == player_stat.player_name
                alone == \A i \in 1..Len(history[k].player_stats) :
                            i # j => history[k].player_stats[i].player_name # name
                marine == in_marine_team(player_stat)
            IN  alone =>
                    /\ (name \in DOMAIN GameSummary("release", history[k]).marines.players) = marine
                    /\ (name \in DOMAIN GameSummary("release", history[k]).aliens.players) = ~marine
                    /\ contains(past.summarized_games[k].marines.players, name) = marine
                    /\ contains(past.summarized_games[k].aliens.players, name) = ~marine

====
